---- MODULE Spec2Model ----
(***************************************************************************)
(* Model of the shopping-assistant agent loop (backend/app/agent.py) and   *)
(* of the streaming caller that drives it (backend/app/main.py).           *)
(*                                                                         *)
(* Text is modelled as a sequence of one-character strings, so that        *)
(* str.lower(), the substring test `in`, slicing and concatenation are     *)
(* computed the way the code computes them.  Tool results, which the loop  *)
(* only forwards, are sequences of larger text pieces.                     *)
(***************************************************************************)
EXTENDS Integers, Sequences, FiniteSets, TLC

\* ---------------------------------------------------------------- bounds
MaxHistory   == 1    \* entries of conversation_history given to astream
MaxCalls     == 2    \* ToolCalls carried by one assistant message
MaxToolCalls == 2    \* ToolCalls the oracle may ask for in one run, in all
MaxAnswerLen == 11   \* characters of a streamed final answer
MaxAdds == 2         \* add_to_cart calls in one run of the cart
MaxBuilds == 2       \* build_index calls on one store
MaxIds == 6          \* product ids given to one compare_products call

\* ------------------------------------------------------- program constants
chunk_size == 5

\* names of the registered tools, in registry order
tools ==
  {"get_products", "get_product_details", "get_categories",
   "get_products_by_category", "search_products", "compare_products",
   "add_to_cart", "remove_from_cart", "view_cart"}

\* the needle of the primer test in _call_model
PrimerNeedle ==
  <<"s", "h", "o", "p", "p", "i", "n", "g", " ", "a", "s", "s", "i", "s", "t", "a", "n", "t">>

\* first sentence of the primer text (the rest of the text plays no role)
PrimerText ==
  <<"Y", "o", "u", " ", "a", "r", "e", " ", "a", " ", "h", "e", "l", "p", "f", "u", "l", " ",
    "e", "-", "c", "o", "m", "m", "e", "r", "c", "e", " ",
    "s", "h", "o", "p", "p", "i", "n", "g", " ", "a", "s", "s", "i", "s", "t", "a", "n", "t", ".">>

\* ------------------------------------------------------------ input texts
UserPlain ==
  <<"s", "h", "o", "w", " ", "m", "y", " ", "c", "a", "r", "t">>
UserMention ==
  <<"B", "e", "s", "t", " ", "S", "h", "o", "p", "p", "i", "n", "g", " ",
    "A", "s", "s", "i", "s", "t", "a", "n", "t", "?">>
AnswerText ==
  <<"C", "a", "r", "t", " ", "i", "s", " ", "e", "m", "p", "t", "y">>

CallText ==
  <<"L", "e", "t", " ", "m", "e", " ", "c", "h", "e", "c", "k">>

UserContents  == {UserPlain, UserMention}
\* the content of a reply without ToolCalls: empty, or an answer
ReplyContents == {<<>>, AnswerText}
\* the content of a reply with ToolCalls; the loop never reads it
CallContents  == {CallText}
\* entries of conversation_history: the roles the seeding tells apart, with
\* and without the primer's phrase in the content
HistoryEntries ==
  { [role |-> "user",      content |-> UserPlain],
    [role |-> "user",      content |-> UserMention],
    [role |-> "assistant", content |-> UserMention],
    [role |-> "tool",      content |-> UserPlain] }
\* what the oracle may ask for: a registered tool with arguments that fit its
\* schema, the same tool with arguments that do not, and an unregistered name
OracleRequests ==
  { [name |-> "add_to_cart",  args |-> "valid"],
    [name |-> "add_to_cart",  args |-> "invalid"],
    [name |-> "no_such_tool", args |-> "valid"] }

\* texts of the exceptions the oracle call can raise, by kind of failure
OracleErrors ==
  { [kind |-> "quota",
     text |-> <<"4", "2", "9", " ", "R", "e", "s", "o", "u", "r", "c", "e", " ",
                "e", "x", "h", "a", "u", "s", "t", "e", "d">>],
    [kind |-> "quota",
     text |-> <<"Q", "u", "o", "t", "a", " ", "e", "x", "c", "e", "e", "d", "e", "d", " ",
                "f", "o", "r", " ", "A", "P", "I", " ", "k", "e", "y">>],
    [kind |-> "auth",
     text |-> <<"A", "P", "I", " ", "k", "e", "y", " ", "n", "o", "t", " ",
                "v", "a", "l", "i", "d">>],
    [kind |-> "generic",
     text |-> <<"C", "o", "n", "n", "e", "c", "t", "i", "o", "n", " ",
                "r", "e", "s", "e", "t">>] }

NoError == [kind |-> "none", text |-> <<>>]

\* ---------------------------------------------------------- text helpers
UpperCase ==
  <<"A", "B", "C", "D", "E", "F", "G", "H", "I", "J", "K", "L", "M",
    "N", "O", "P", "Q", "R", "S", "T", "U", "V", "W", "X", "Y", "Z">>
LowerCase ==
  <<"a", "b", "c", "d", "e", "f", "g", "h", "i", "j", "k", "l", "m",
    "n", "o", "p", "q", "r", "s", "t", "u", "v", "w", "x", "y", "z">>

LowerChar(ch) ==
  IF \E i \in 1..26 : UpperCase[i] = ch
    THEN LowerCase[CHOOSE i \in 1..26 : UpperCase[i] = ch]
    ELSE ch

\* str.lower()
Lower(s) == [i \in 1..Len(s) |-> LowerChar(s[i])]

\* needle in s
Contains(needle, s) ==
  \E i \in 0..(Len(s) - Len(needle)) :
    \A j \in 1..Len(needle) : s[i + j] = needle[j]

RECURSIVE Concat(_)
\* "".join(chunks), as the caller accumulates full_response
Concat(ss) == IF ss = <<>> THEN <<>> ELSE Head(ss) \o Concat(Tail(ss))

SeqsUpTo(S, n) == UNION {[1..k -> S] : k \in 0..n}

\* -------------------------------------------------------------- messages
HumanMessage(c) ==
  [type |-> "human", content |-> c, tool_calls |-> <<>>, tool_call_id |-> 0, name |-> ""]
AIMessage(c, calls) ==
  [type |-> "ai", content |-> c, tool_calls |-> calls, tool_call_id |-> 0, name |-> ""]
ToolMessage(c, id, n) ==
  [type |-> "tool", content |-> c, tool_calls |-> <<>>, tool_call_id |-> id, name |-> n]

system_message == HumanMessage(PrimerText)

VARIABLES
  pc,              \* "idle", "agent", "tools", "end", "returned", "failed"
  messages,        \* AgentState.messages of the running graph
  oracleInput,     \* the sequence last handed to llm_with_tools.ainvoke
  final_messages,  \* astream's final_messages: the last node's update
  invocations,     \* the tool.ainvoke calls made so far, in order
  cycles,          \* completed runs of _tool_node
  nextId,          \* the next fresh ToolCall id
  yielded,         \* the chunks astream has yielded
  full_response,   \* the caller's accumulated answer
  raised,          \* the exception that reached the caller, or NoError
  error_event      \* the type of the error event the caller sent, or "none"

agentVars == <<pc, messages, oracleInput, final_messages, invocations, cycles,
               nextId, yielded, full_response, raised, error_event>>

\* the chunk loop at the end of astream, one yield at a time
VARIABLES
  answer,          \* the final answer being streamed
  chunk_i,         \* the loop variable i of range(0, len(answer), chunk_size)
  stream           \* the chunks yielded so far, in emission order

streamVars == <<answer, chunk_i, stream>>

\* the cart_items table and the loop invocations working on it
VARIABLES
  cart_items,      \* the rows of table cart_items, in rowid order
  task,            \* per loop invocation: the add_to_cart call it is suspended in
  adds,            \* the add_to_cart calls started so far
  last_call,       \* the tool call that returned last
  returned,        \* the text that call returned
  since            \* per product: the quantities added since its line was created

cartVars == <<cart_items, task, adds, last_call, returned, since>>

\* the ProductVectorStore and what its callers have seen of it
VARIABLES
  index,           \* self.index: None, or the vectors added to the FAISS index
  products,        \* self.products
  build_log,       \* the build_index calls made so far, with their outcome
  search_out       \* the search call that ended last, with its outcome

storeVars == <<index, products, build_log, search_out>>

\* one call of a catalog tool, from its arguments to the text it returns
VARIABLES
  tool_pc,         \* "idle", "called" or "returned"
  tool_args,       \* the arguments of the call
  trace,           \* the collaborator calls the tool has made, in order
  listing,         \* the products the tool has kept for its reply
  reply            \* what the tool returned

toolVars == <<tool_pc, tool_args, trace, listing, reply>>

vars == <<agentVars, streamVars, cartVars, storeVars, toolVars>>

\* what each subsystem's steps leave alone
nonAgentVars == <<streamVars, cartVars, storeVars, toolVars>>
nonCartVars == <<agentVars, streamVars, storeVars, toolVars>>
nonStoreVars == <<agentVars, streamVars, cartVars, toolVars>>
nonToolVars == <<agentVars, streamVars, cartVars, storeVars>>

\* no answer is being streamed
StreamIdle ==
  /\ answer = <<>>
  /\ chunk_i = 0
  /\ stream = <<>>

\* the loop invocations (requests) that may be running at the same time
Tasks == {1, 2}

\* the catalog ids the oracle asks for
ProductIds == {1, 2}

\* an invocation that is not inside add_to_cart
IdleTask ==
  [pc |-> "idle", product_id |-> 0, quantity |-> 0, has_db |-> FALSE, raced |-> FALSE]

\* no tool call has returned yet
NoCall ==
  [tool |-> "none", product_id |-> 0, quantity |-> 0, has_db |-> FALSE, raced |-> FALSE]

\* the table as init_db creates it, and no call in progress
CartEmpty ==
  /\ cart_items = <<>>
  /\ task = [t \in Tasks |-> IdleTask]
  /\ adds = 0
  /\ last_call = NoCall
  /\ returned = <<>>
  /\ since = [p \in ProductIds |-> 0]

\* self.index = None
None == [present |-> FALSE, vectors |-> <<>>]

\* no search has ended yet
NoSearch == [done |-> FALSE, query |-> "", top_k |-> 0, raised |-> FALSE, results |-> <<>>]

\* the store as ProductVectorStore.__init__ leaves it
StoreNew ==
  /\ index = None
  /\ products = <<>>
  /\ build_log = <<>>
  /\ search_out = NoSearch

\* no catalog tool has been called
ToolsIdle ==
  /\ tool_pc = "idle"
  /\ tool_args = [tool |-> "none"]
  /\ trace = <<>>
  /\ listing = <<>>
  /\ reply = <<>>

Init ==
  /\ StreamIdle
  /\ CartEmpty
  /\ StoreNew
  /\ ToolsIdle
  /\ pc = "idle"
  /\ messages = <<>>
  /\ oracleInput = <<>>
  /\ final_messages = <<>>
  /\ invocations = <<>>
  /\ cycles = 0
  /\ nextId = 1
  /\ yielded = <<>>
  /\ full_response = <<>>
  /\ raised = NoError
  /\ error_event = "none"

\* ------------------------------------------------------------ astream seed
\* one entry of conversation_history: only user and assistant turns are kept
KeptRole(msg) == msg.role \in {"user", "assistant"}

ConvertEntry(msg) ==
  IF msg.role = "user" THEN HumanMessage(msg.content) ELSE AIMessage(msg.content, <<>>)

ConvertHistory(history) ==
  LET kept == SelectSeq(history, KeptRole)
  IN  [i \in 1..Len(kept) |-> ConvertEntry(kept[i])]

SeedMessages(message, history) ==
  ConvertHistory(history) \o <<HumanMessage(message)>>

\* variant: the state key has no reducer, an update overwrites the value
add_messages_overwrite(left, right) == right

\* the reducer of AgentState.messages: updates are appended (every message
\* of a run carries its own fresh id, so none replaces an earlier one)
add_messages(left, right) == left \o right

\* ------------------------------------------------------------ _call_model
IsPrimerLike(m) ==
  m.type = "human" /\ Contains(PrimerNeedle, Lower(m.content))

\* messages[:1]
FirstSlice(msgs) == SubSeq(msgs, 1, IF Len(msgs) < 1 THEN Len(msgs) ELSE 1)

ModelInput(msgs) ==
  IF ~ \E i \in 1..Len(FirstSlice(msgs)) : IsPrimerLike(FirstSlice(msgs)[i])
    THEN <<system_message>> \o msgs
    ELSE msgs

\* the ToolCalls of one oracle reply; ids are fresh for every call
MakeCalls(reqs, firstId) ==
  [i \in 1..Len(reqs) |->
     [id |-> firstId + i - 1, name |-> reqs[i].name, args |-> reqs[i].args]]

\* -------------------------------------------------------- _should_continue
\* variant: the test looks at the content instead of the tool calls
should_continue_content(msgs) ==
  IF msgs[Len(msgs)].content = <<>> THEN "continue" ELSE "end"

should_continue(msgs) ==
  IF msgs[Len(msgs)].tool_calls # <<>> THEN "continue" ELSE "end"

\* the conditional edges out of "agent" and the edge out of "tools"
\* variant: the graph allows one dispatch cycle only
AfterAgent_oneCycle(msgs) ==
  IF should_continue(msgs) = "continue" /\ ~ \E i \in 1..Len(msgs) : msgs[i].type = "tool"
    THEN "tools" ELSE "end"

AfterAgent(msgs) == IF should_continue(msgs) = "continue" THEN "tools" ELSE "end"
\* variant: the edge out of "tools" leads to END
AfterTools_end == "end"
AfterTools == "agent"

\* -------------------------------------------------------------- _tool_node
\* tool.ainvoke raises when the arguments do not fit the tool's schema;
\* every tool body catches its own exceptions and returns a text
Raises(call) == call.args = "invalid"

ToolResult(call) == <<"result of ", call.name>>
ToolError(call)  == <<"Error executing tool: ", "invalid arguments">>
\* variant: the text does not name the tool
ToolUnknown_anon(call) == <<"Tool not found">>
ToolUnknown(call) == <<"Tool '", call.name, "' not found">>

IsRegistered(call) == call.name \in tools

ToolMessageFor(call) ==
  IF IsRegistered(call)
    THEN IF ~Raises(call)
           THEN ToolMessage(ToolResult(call), call.id, call.name)
           ELSE ToolMessage(ToolError(call), call.id, call.name)
    ELSE ToolMessage(ToolUnknown(call), call.id, call.name)

\* variant: results folded back in reverse (completion) order
ToolMessages_reversed(calls) ==
  [i \in 1..Len(calls) |-> ToolMessageFor(calls[Len(calls) + 1 - i])]

\* variant: no try/except, the first raising call ends the loop over the calls
ToolMessages_abort(calls) ==
  LET stop == IF \E i \in 1..Len(calls) : IsRegistered(calls[i]) /\ Raises(calls[i])
                THEN CHOOSE i \in 1..Len(calls) :
                       /\ IsRegistered(calls[i]) /\ Raises(calls[i])
                       /\ \A j \in 1..(i - 1) : ~(IsRegistered(calls[j]) /\ Raises(calls[j]))
                ELSE Len(calls) + 1
  IN  [i \in 1..(stop - 1) |-> ToolMessageFor(calls[i])]

\* the for loop over last_message.tool_calls: one message per call, in order
ToolMessages(calls) == [i \in 1..Len(calls) |-> ToolMessageFor(calls[i])]

\* the calls for which tool.ainvoke is entered, in order
Invoked(calls) == SelectSeq(calls, IsRegistered)

RECURSIVE AllCalls(_)
AllCalls(msgs) == IF msgs = <<>> THEN <<>> ELSE Head(msgs).tool_calls \o AllCalls(Tail(msgs))

\* variant: the node dispatches the ToolCalls of every message of the state
PendingCalls_all(msgs) == AllCalls(msgs)

\* the ToolCalls the node dispatches: those of messages[-1]
PendingCalls(msgs) == msgs[Len(msgs)].tool_calls

\* ------------------------------------------------------- astream, the tail
IsAnswer(m) == m.type = "ai" /\ m.content # <<>>

\* for msg in reversed(final_messages): the last AIMessage with content
AnswerContent(fm) ==
  IF \E i \in 1..Len(fm) : IsAnswer(fm[i])
    THEN fm[CHOOSE i \in 1..Len(fm) :
              IsAnswer(fm[i]) /\ \A j \in (i + 1)..Len(fm) : ~IsAnswer(fm[j])].content
    ELSE <<>>

Min(a, b) == IF a < b THEN a ELSE b

\* for i in range(0, len(content), chunk_size): yield content[i:i+chunk_size]
Chunks(content) ==
  [k \in 1..((Len(content) + chunk_size - 1) \div chunk_size) |->
     SubSeq(content, (k - 1) * chunk_size + 1, Min(k * chunk_size, Len(content)))]

NonEmpty(chunk) == chunk # <<>>

\* the caller: if chunk: full_response += chunk
Accumulate(chunks) == Concat(SelectSeq(chunks, NonEmpty))

\* ------------------------------------------- event_generator, the handler
\* variant: the markers are looked for without lower()
ErrorType_noLower(error_message) ==
  IF \/ Contains(<<"q", "u", "o", "t", "a">>, error_message)
     \/ Contains(<<"r", "a", "t", "e", " ", "l", "i", "m", "i", "t">>, error_message)
     \/ Contains(<<"4", "2", "9">>, error_message)
    THEN "quota_error"
    ELSE IF \/ Contains(<<"a", "p", "i", " ", "k", "e", "y">>, error_message)
            \/ Contains(<<"4", "0", "1">>, error_message)
            \/ Contains(<<"4", "0", "3">>, error_message)
           THEN "auth_error"
           ELSE "error"

ErrorType(error_message) ==
  IF \/ Contains(<<"q", "u", "o", "t", "a">>, Lower(error_message))
     \/ Contains(<<"r", "a", "t", "e", " ", "l", "i", "m", "i", "t">>, Lower(error_message))
     \/ Contains(<<"4", "2", "9">>, error_message)
    THEN "quota_error"
    ELSE IF \/ Contains(<<"a", "p", "i", " ", "k", "e", "y">>, Lower(error_message))
            \/ Contains(<<"4", "0", "1">>, error_message)
            \/ Contains(<<"4", "0", "3">>, error_message)
           THEN "auth_error"
           ELSE "error"

\* ---------------------------------------------------------------- actions
\* astream(message, conversation_history) up to the start of the graph
Astream ==
  /\ pc = "idle"
  /\ \E message \in UserContents :
     \E history \in SeqsUpTo(HistoryEntries, MaxHistory) :
       messages' = SeedMessages(message, history)
  /\ pc' = "agent"
  /\ UNCHANGED <<oracleInput, final_messages, invocations, cycles, nextId,
                 yielded, full_response, raised, error_event>>
  /\ UNCHANGED nonAgentVars

\* node "agent": the oracle returns one assistant message
CallModel ==
  /\ pc = "agent"
  /\ \E reqs \in SeqsUpTo(OracleRequests, MaxCalls) :
     \E content \in (IF reqs = <<>> THEN ReplyContents ELSE CallContents) :
       /\ nextId + Len(reqs) - 1 <= MaxToolCalls
       /\ LET response == AIMessage(content, MakeCalls(reqs, nextId))
              state    == add_messages(messages, <<response>>)
          IN  /\ oracleInput' = ModelInput(messages)
              /\ messages' = state
              /\ final_messages' = <<response>>
              /\ pc' = AfterAgent(state)
       /\ nextId' = nextId + Len(reqs)
  /\ UNCHANGED <<invocations, cycles, yielded, full_response, raised, error_event>>
  /\ UNCHANGED nonAgentVars

\* node "agent": the oracle call raises; the exception leaves the graph and
\* astream and is reported by event_generator
CallModelFails ==
  /\ pc = "agent"
  /\ \E e \in OracleErrors :
       /\ raised' = e
       /\ error_event' = ErrorType(e.text)
  /\ oracleInput' = ModelInput(messages)
  /\ pc' = "failed"
  /\ UNCHANGED <<messages, final_messages, invocations, cycles, nextId,
                 yielded, full_response>>
  /\ UNCHANGED nonAgentVars

\* node "tools"
ToolNode ==
  /\ pc = "tools"
  /\ LET calls         == PendingCalls(messages)
         tool_messages == IF calls # <<>> THEN ToolMessages(calls) ELSE <<>>
     IN  /\ messages' = add_messages(messages, tool_messages)
         /\ final_messages' = tool_messages
         /\ invocations' = invocations \o Invoked(calls)
  /\ cycles' = cycles + 1
  /\ pc' = AfterTools
  /\ UNCHANGED <<oracleInput, nextId, yielded, full_response, raised, error_event>>
  /\ UNCHANGED nonAgentVars

\* the graph has ended: astream yields the answer in chunks and the caller
\* accumulates them
YieldAnswer ==
  /\ pc = "end"
  /\ yielded' = IF final_messages # <<>> THEN Chunks(AnswerContent(final_messages)) ELSE <<>>
  /\ full_response' = Accumulate(yielded')
  /\ pc' = "returned"
  /\ UNCHANGED <<messages, oracleInput, final_messages, invocations, cycles,
                 nextId, raised, error_event>>
  /\ UNCHANGED nonAgentVars

Next ==
  \/ Astream
  \/ CallModel
  \/ CallModelFails
  \/ ToolNode
  \/ YieldAnswer

Spec == Init /\ [][Next]_vars

\* the scheduler runs every node that is ready, and the generator is consumed
FairSpec == Spec /\ WF_vars(Next)

TypeOK ==
  /\ pc \in {"idle", "agent", "tools", "end", "returned", "failed"}
  /\ cycles \in 0..MaxToolCalls
  /\ nextId \in 1..(MaxToolCalls + 1)
  /\ error_event \in {"none", "error", "quota_error", "auth_error"}

\* ------------------------------------------------------- transcript views
Last(msgs) == msgs[Len(msgs)]

\* the index of the assistant message nearest before position i (0 if none)
NearestAssistant(i) ==
  IF \E k \in 1..(i - 1) : messages[k].type = "ai"
    THEN CHOOSE k \in 1..(i - 1) :
           /\ messages[k].type = "ai"
           /\ \A j \in (k + 1)..(i - 1) : messages[j].type # "ai"
    ELSE 0

\* how many ToolCalls of message k carry the id
Matches(k, id) ==
  Cardinality({j \in 1..Len(messages[k].tool_calls) : messages[k].tool_calls[j].id = id})

\* C1: every tool-role message's tool_call_id is the id of exactly one ToolCall
\* of the nearest preceding assistant message, in every reachable transcript.
C1_Linkage ==
  \A i \in 1..Len(messages) :
    messages[i].type = "tool" =>
      /\ NearestAssistant(i) # 0
      /\ Matches(NearestAssistant(i), messages[i].tool_call_id) = 1

\* a second dispatch cycle has answered its assistant message, after a first
\* cycle whose assistant message carried a call of its own
C1_Witness ==
  /\ cycles = 2
  /\ messages[Len(messages)].type = "tool"
  /\ \E k \in 1..(NearestAssistant(Len(messages)) - 1) : messages[k].tool_calls # <<>>

\* C2: one Dispatching step over calls c1..cn appends exactly n tool-role
\* messages and the i-th appended message carries the id and name of ci,
\* whether the call returned, raised or named an unknown tool.
C2_DispatchOrder ==
  [][pc = "tools" =>
       LET calls == Last(messages).tool_calls
           base  == Len(messages)
       IN  /\ Len(messages') = base + Len(calls)
           /\ \A i \in 1..Len(calls) :
                /\ messages'[base + i].type = "tool"
                /\ messages'[base + i].tool_call_id = calls[i].id
                /\ messages'[base + i].name = calls[i].name]_vars

\* a dispatch has answered an unknown tool first and a raising tool second
C2_Witness ==
  /\ pc = "agent"
  /\ cycles = 1
  /\ Len(messages) >= 3
  /\ messages[Len(messages) - 1].type = "tool"
  /\ messages[Len(messages) - 1].content = <<"Tool '", "no_such_tool", "' not found">>
  /\ messages[Len(messages)].type = "tool"
  /\ messages[Len(messages)].content[1] = "Error executing tool: "

\* C3: a registered tool that raises does not abort the loop: its call gets a
\* tool-role message describing the error, the calls after it are still
\* dispatched (invoked when registered, answered in any case), and the loop
\* goes back to Reasoning.
C3_ToolRaises ==
  [][pc = "tools" =>
       LET calls == Last(messages).tool_calls
           base  == Len(messages)
           done  == Len(invocations)
       IN  \A i \in 1..Len(calls) :
             (calls[i].name \in tools /\ calls[i].args = "invalid") =>
               /\ pc' = "agent"
               /\ Len(messages') = base + Len(calls)
               /\ messages'[base + i].type = "tool"
               /\ messages'[base + i].tool_call_id = calls[i].id
               /\ messages'[base + i].content[1] = "Error executing tool: "
               /\ \A j \in (i + 1)..Len(calls) :
                    /\ messages'[base + j].tool_call_id = calls[j].id
                    /\ calls[j].name \in tools =>
                         \E k \in (done + 1)..Len(invocations') :
                           invocations'[k].id = calls[j].id]_vars

\* a raising call was followed in the same dispatch by a call that returned
C3_Witness ==
  /\ pc = "agent"
  /\ cycles >= 1
  /\ Len(messages) >= 3
  /\ messages[Len(messages) - 1].type = "tool"
  /\ messages[Len(messages) - 1].content[1] = "Error executing tool: "
  /\ messages[Len(messages)].type = "tool"
  /\ messages[Len(messages)].content = <<"result of ", "add_to_cart">>

\* C4: a ToolCall naming an unregistered tool gets a tool-role message naming
\* the unknown tool, no tool is invoked for it, the later calls are answered
\* and the loop goes back to Reasoning.
C4_UnknownTool ==
  [][pc = "tools" =>
       LET calls == Last(messages).tool_calls
           base  == Len(messages)
       IN  \A i \in 1..Len(calls) :
             calls[i].name \notin tools =>
               /\ pc' = "agent"
               /\ Len(messages') = base + Len(calls)
               /\ messages'[base + i] =
                    [type |-> "tool", tool_calls |-> <<>>, name |-> calls[i].name,
                     tool_call_id |-> calls[i].id,
                     content |-> <<"Tool '", calls[i].name, "' not found">>]
               /\ \A k \in 1..Len(invocations') : invocations'[k].id # calls[i].id]_vars

\* an unknown tool was answered and the registered call after it was invoked
C4_Witness ==
  /\ pc = "agent"
  /\ Len(messages) >= 3
  /\ messages[Len(messages) - 1].content = <<"Tool '", "no_such_tool", "' not found">>
  /\ messages[Len(messages)].content = <<"result of ", "add_to_cart">>
  /\ invocations # <<>>
  /\ invocations[Len(invocations)].id = messages[Len(messages)].tool_call_id

\* the index of the user message that seeded the run (the last human message)
SeedEnd ==
  CHOOSE h \in 0..Len(messages) :
    /\ h # 0 => messages[h].type = "human"
    /\ \A j \in (h + 1)..Len(messages) : messages[j].type # "human"

\* the positions of the oracle's replies in the transcript
Replies == {i \in (SeedEnd + 1)..Len(messages) : messages[i].type = "ai"}

\* so far the oracle has answered every call, always with ToolCalls, all of
\* them for unregistered names
OracleAlwaysUnknown ==
  /\ pc \notin {"idle", "failed"}
  /\ Replies # {}
  /\ \A i \in Replies :
       /\ messages[i].tool_calls # <<>>
       /\ \A j \in 1..Len(messages[i].tool_calls) :
            messages[i].tool_calls[j].name \notin tools

C6_PrimerOnce ==
  [][pc = "agent" =>
       /\ Len(oracleInput') = Len(messages) + 1
       /\ oracleInput'[1] = system_message
       /\ Cardinality({i \in 1..Len(oracleInput') : oracleInput'[i] = system_message}) = 1
       /\ Tail(oracleInput') = messages]_vars

\* C7: after a Reasoning step the loop is in Dispatching exactly when the
\* reply carries a ToolCall and at Done otherwise; from Done on no tool is
\* dispatched, and the answer the caller collects is the content of the last
\* assistant message.
C7_Routing ==
  [][/\ (pc = "agent" /\ pc' # "failed") =>
          /\ (pc' = "tools") <=> (Last(messages').tool_calls # <<>>)
          /\ (pc' = "end") <=> (Last(messages').tool_calls = <<>>)
     /\ pc = "end" =>
          /\ pc' = "returned"
          /\ Last(messages).type = "ai"
          /\ full_response' = Last(messages).content
          /\ Concat(yielded') = Last(messages).content
     /\ pc \in {"end", "returned"} =>
          /\ invocations' = invocations
          /\ messages' = messages
          /\ pc' \notin {"agent", "tools"}]_vars

\* the answer that followed a dispatch cycle has reached the caller
C7_Witness ==
  /\ pc = "returned"
  /\ cycles >= 1
  /\ full_response = AnswerText
  /\ Len(yielded) = 3

\* C8: Dispatching is always followed by Reasoning, Reasoning by Dispatching,
\* Done or the failure of the oracle call, and a run whose oracle calls all
\* return reaches Done (the oracle asks for at most MaxToolCalls ToolCalls).
C8_Terminates ==
  /\ [][/\ pc = "tools" => pc' = "agent"
        /\ pc = "agent" => pc' \in {"tools", "end", "failed"}]_vars
  /\ [](pc \in {"agent", "tools"} => <>(pc \in {"end", "failed"}))
  /\ <>(pc \in {"end", "failed"})

\* Done was reached after the loop had alternated through two dispatch cycles
C8_Witness == pc = "end" /\ cycles = 2 /\ invocations # <<>>

\* the type the caller has to report for a kind of oracle failure
ExpectedType(kind) ==
  CASE kind = "quota" -> "quota_error"
    [] kind = "auth" -> "auth_error"
    [] OTHER -> "error"

C10_AppendOnly ==
  [][(pc = "agent" \/ pc = "tools") =>
       /\ Len(messages') >= Len(messages)
       /\ SubSeq(messages', 1, Len(messages)) = messages]_vars

\* both a Reasoning and a Dispatching step have appended to a seeded history
C10_Witness ==
  /\ pc = "agent"
  /\ cycles >= 1
  /\ SeedEnd = 2
  /\ Len(messages) >= 5

\* ===================================================== the answer streamer
\* The chunk loop of astream (agent.py:161-168), run on every answer text
\* over a two-letter alphabet, one yield per step.
AnswerChars == {"a", "b"}

\* the agent loop at rest, as Init leaves it
AgentIdle ==
  /\ pc = "idle"
  /\ messages = <<>>
  /\ oracleInput = <<>>
  /\ final_messages = <<>>
  /\ invocations = <<>>
  /\ cycles = 0
  /\ nextId = 1
  /\ yielded = <<>>
  /\ full_response = <<>>
  /\ raised = NoError
  /\ error_event = "none"

\* variant: the slice stops one character early
Slice_short(text, i) ==
  SubSeq(text, i + 1, Min(i + chunk_size - 1, Len(text)))

\* content[i:i+chunk_size]
Slice(text, i) ==
  SubSeq(text, i + 1, Min(i + chunk_size, Len(text)))

\* range(0, len(content), chunk_size) has a next value
MoreChunks == chunk_i < Len(answer)

StreamInit ==
  /\ AgentIdle
  /\ CartEmpty
  /\ StoreNew
  /\ answer \in SeqsUpTo(AnswerChars, MaxAnswerLen)
  /\ chunk_i = 0
  /\ stream = <<>>
  /\ ToolsIdle

\* one turn of the for loop: yield content[i:i+chunk_size]
YieldChunk ==
  /\ MoreChunks
  /\ stream' = Append(stream, Slice(answer, chunk_i))
  /\ chunk_i' = chunk_i + chunk_size
  /\ UNCHANGED <<answer, agentVars, cartVars, storeVars, toolVars>>

StreamNext == YieldChunk

StreamSpec == StreamInit /\ [][StreamNext]_vars

\* C11: the chunks emitted so far are the left-to-right partition of the part
\* of the answer already consumed, and once the loop is exhausted there are
\* ceil(len/5) chunks, each of 5 characters except a last one of 1 to 5, whose
\* concatenation in emission order is the answer (no chunk for an empty one).
C11_Partition ==
  /\ Concat(stream) = SubSeq(answer, 1, IF chunk_i < Len(answer) THEN chunk_i ELSE Len(answer))
  /\ \A k \in 1..Len(stream) :
       stream[k] = SubSeq(answer, 5 * (k - 1) + 1,
                          IF 5 * k < Len(answer) THEN 5 * k ELSE Len(answer))
  /\ chunk_i >= Len(answer) =>
       /\ Len(stream) = (Len(answer) + 4) \div 5
       /\ Concat(stream) = answer
       /\ \A k \in 1..Len(stream) :
            /\ k < Len(stream) => Len(stream[k]) = 5
            /\ Len(stream[k]) \in 1..5

\* an 11-character answer has been streamed as 5 + 5 + 1 characters
C11_Witness ==
  /\ Len(answer) = 11
  /\ chunk_i >= Len(answer)
  /\ Len(stream) = 3
  /\ Len(stream[3]) = 1
  /\ stream[1] # stream[2]

\* ================================================================ the cart
\* The three cart tools of tools.py on the cart_items table, called by loop
\* invocations that share one event loop: a coroutine is suspended only at an
\* await, and add_to_cart has a single one, the product lookup (tools.py:199).
\* fake_store_api.get_product_details(product_id), when it succeeds; a
\* rating's rate is held in tenths
Product(p) ==
  [id |-> p,
   title |-> IF p = 1 THEN "Backpack" ELSE IF p = 2 THEN "Shirt" ELSE "Jacket",
   price |-> IF p = 1 THEN 110 ELSE IF p = 2 THEN 22 ELSE 56,
   category |-> IF p = 3 THEN "women's clothing" ELSE "men's clothing",
   description |-> IF p = 1 THEN "Laptop bag" ELSE IF p = 2 THEN "Cotton top" ELSE "Rain coat",
   rating |-> [rate |-> IF p = 1 THEN 39 ELSE 41, count |-> 120]]

\* CartItem(user_id="default", product_id=..., title=..., price=str(...), quantity=...)
CartItem(p, product, q) ==
  [user_id |-> "default", product_id |-> p, title |-> product.title,
   price |-> ToString(product.price), quantity |-> q]

\* float(item.price)
PriceOf(item) ==
  IF item.price = "110" THEN 110 ELSE IF item.price = "22" THEN 22 ELSE 56

\* the rows the filter user_id == "default", product_id == p selects
Matching(rows, p) ==
  {k \in DOMAIN rows : rows[k].user_id = "default" /\ rows[k].product_id = p}

\* variant: the query finds no line
first_none(rows, p) == 0

\* .first(): the position of the first selected row, 0 for None
first(rows, p) ==
  IF Matching(rows, p) = {} THEN 0
  ELSE CHOOSE k \in Matching(rows, p) : \A j \in Matching(rows, p) : k <= j

\* variant: the quantity is overwritten
Increment_overwrite(rows, k, q) == [rows EXCEPT ![k].quantity = q]

\* existing_item.quantity += quantity; db.commit()
Increment(rows, k, q) == [rows EXCEPT ![k].quantity = @ + q]

\* db.add(cart_item); db.commit()
Insert(rows, item) == Append(rows, item)

\* variant: the delete takes every row
Delete_all(rows, k) == <<>>

\* db.delete(item); db.commit()
Delete(rows, k) == SubSeq(rows, 1, k - 1) \o SubSeq(rows, k + 1, Len(rows))

\* variant: expiring the session empties the table
expire_all_truncate(rows) == <<>>

\* db.expire_all(): the session forgets what it loaded, the table is as it was
expire_all(rows) == rows

\* the texts the cart tools return
AddedText(item) ==
  <<"Added: ", item.title, " x", ToString(item.quantity), " ($", item.price, ")">>

\* f"Updated: {product['title']} x{existing_item.quantity}"
UpdatedText(product, item) ==
  <<"Updated: ", product.title, " x", ToString(item.quantity)>>

RemovedText(p) == <<"Removed product ", ToString(p), " from cart">>

\* variant: a missing line is reported as removed
NotInCartText_removed(p) == <<"Removed product ", ToString(p), " from cart">>

NotInCartText(p) == <<"Product ", ToString(p), " not in cart">>

NoDatabaseText == <<"Error: Database not available">>

\* f"Error: {str(e)}" for a failed lookup
LookupErrorText == <<"Error: ", "lookup failed">>

\* f"Error: {str(e)}" for the KeyError of product['title']
KeyErrorText == <<"Error: ", "'title'">>

\* f"{x:.2f}" of a whole amount
Money(n) == <<ToString(n), ".00">>

RECURSIVE Total(_)
Total(rows) ==
  IF rows = <<>> THEN 0
  ELSE PriceOf(rows[1]) * rows[1].quantity + Total(Tail(rows))

CartText(rows) ==
  IF rows = <<>> THEN <<"Cart is empty">>
  ELSE <<"## Cart\n">>
       \o Concat([k \in 1..Len(rows) |->
                    <<"\n", "- ", rows[k].title, " x", ToString(rows[k].quantity), " = $">>
                    \o Money(PriceOf(rows[k]) * rows[k].quantity)])
       \o <<"\n", "\n**Total: $">> \o Money(Total(rows)) \o <<"**">>

\* another invocation committed a write to product p: the invocations
\* suspended in add_to_cart for p have been overtaken
Overtake(tasks, p) ==
  [t \in Tasks |->
     IF tasks[t].pc = "fetching" /\ tasks[t].product_id = p
     THEN [tasks[t] EXCEPT !.raced = TRUE]
     ELSE tasks[t]]

\* the quantities added to product p since its line was created, once q more
\* are added
Added(p, q) == IF Matching(cart_items, p) = {} THEN q ELSE since[p] + q

CartInit ==
  /\ AgentIdle
  /\ StreamIdle
  /\ CartEmpty
  /\ StoreNew
  /\ ToolsIdle

\* add_to_cart up to its await: the product lookup is in flight
AddStart(t) ==
  /\ task[t].pc = "idle"
  /\ adds < MaxAdds
  /\ \E p \in ProductIds, q \in {-1, 1, 2}, db \in BOOLEAN :
       task' = [task EXCEPT ![t] =
                  [pc |-> "fetching", product_id |-> p, quantity |-> q,
                   has_db |-> db, raced |-> FALSE]]
  /\ adds' = adds + 1
  /\ UNCHANGED <<cart_items, last_call, returned, since, nonCartVars>>

\* add_to_cart from the return of the lookup to its return: the query, the
\* write and the commit run with no await in between
AddFinish(t) ==
  /\ task[t].pc = "fetching"
  /\ \E fetched \in {"ok", "raises", "no_title"} :
       LET c == task[t]
           p == c.product_id
           q == c.quantity
           k == first(cart_items, p)
           idle == [task EXCEPT ![t] = IdleTask]
       IN /\ last_call' = [tool |-> "add_to_cart", product_id |-> p, quantity |-> q,
                      has_db |-> c.has_db, raced |-> c.raced]
          /\ IF fetched = "raises"
             THEN /\ returned' = LookupErrorText
                  /\ task' = idle
                  /\ UNCHANGED <<cart_items, since>>
             ELSE IF ~c.has_db
             THEN /\ returned' = NoDatabaseText
                  /\ task' = idle
                  /\ UNCHANGED <<cart_items, since>>
             ELSE IF k # 0
             THEN /\ cart_items' = Increment(cart_items, k, q)
                  /\ returned' = IF fetched = "no_title" THEN KeyErrorText
                                 ELSE UpdatedText(Product(p), cart_items'[k])
                  /\ since' = [since EXCEPT ![p] = Added(p, q)]
                  /\ task' = Overtake(idle, p)
             ELSE IF fetched = "no_title"
             THEN /\ returned' = KeyErrorText
                  /\ task' = idle
                  /\ UNCHANGED <<cart_items, since>>
             ELSE /\ cart_items' = Insert(cart_items, CartItem(p, Product(p), q))
                  /\ returned' = AddedText(CartItem(p, Product(p), q))
                  /\ since' = [since EXCEPT ![p] = Added(p, q)]
                  /\ task' = Overtake(idle, p)
  /\ UNCHANGED <<adds, nonCartVars>>

\* remove_from_cart: it has no await
RemoveFromCart(t) ==
  /\ task[t].pc = "idle"
  /\ \E p \in ProductIds, db \in BOOLEAN :
       LET k == first(cart_items, p)
       IN /\ last_call' = [tool |-> "remove_from_cart", product_id |-> p, quantity |-> 0,
                      has_db |-> db, raced |-> FALSE]
          /\ IF ~db
             THEN /\ returned' = NoDatabaseText
                  /\ UNCHANGED <<cart_items, since, task>>
             ELSE IF k # 0
             THEN /\ cart_items' = Delete(cart_items, k)
                  /\ returned' = RemovedText(p)
                  /\ since' = [since EXCEPT ![p] = 0]
                  /\ task' = Overtake(task, p)
             ELSE /\ returned' = NotInCartText(p)
                  /\ UNCHANGED <<cart_items, since, task>>
  /\ UNCHANGED <<adds, nonCartVars>>

\* view_cart: it has no await
ViewCart(t) ==
  /\ task[t].pc = "idle"
  /\ \E db \in BOOLEAN :
       /\ last_call' = [tool |-> "view_cart", product_id |-> 0, quantity |-> 0,
                   has_db |-> db, raced |-> FALSE]
       /\ IF ~db
          THEN /\ returned' = <<"Error: Database session not available">>
               /\ UNCHANGED cart_items
          ELSE /\ cart_items' = expire_all(cart_items)
               /\ returned' = CartText(cart_items')
  /\ UNCHANGED <<task, adds, since, nonCartVars>>

\* one of the six catalog tools, whatever the catalog answers: none of them
\* holds the database handle
CatalogTool(t) ==
  /\ task[t].pc = "idle"
  /\ \E tool \in {"get_products", "get_product_details", "get_categories",
                   "get_products_by_category", "search_products",
                   "compare_products"},
        ok \in BOOLEAN :
       /\ last_call' = [tool |-> tool, product_id |-> 0, quantity |-> 0,
                   has_db |-> FALSE, raced |-> FALSE]
       /\ returned' = IF ok THEN <<"catalog text">> ELSE LookupErrorText
  /\ UNCHANGED <<cart_items, task, adds, since, nonCartVars>>

CartNext ==
  \E t \in Tasks :
    \/ AddStart(t)
    \/ AddFinish(t)
    \/ RemoveFromCart(t)
    \/ ViewCart(t)
    \/ CatalogTool(t)

CartSpec == CartInit /\ [][CartNext]_vars

\* C12: the cart holds at most one line per (user_id, product_id), and the
\* quantity of that line is the sum of the quantities added since the line
\* was created: an add_to_cart on a product in the cart increments its line.
C12_OneLinePerProduct ==
  \A p \in ProductIds :
    /\ Cardinality({k \in DOMAIN cart_items :
                      cart_items[k].user_id = "default" /\ cart_items[k].product_id = p}) <= 1
    /\ \A k \in DOMAIN cart_items :
         cart_items[k].product_id = p => cart_items[k].quantity = since[p]

\* two add_to_cart calls for product 1, of 1 and of 2, left one line of 3
C12_Witness ==
  /\ adds = 2
  /\ Len(cart_items) = 1
  /\ cart_items[1].product_id = 1
  /\ cart_items[1].quantity = 3
  /\ since[1] = 3
  /\ last_call.tool = "add_to_cart"
  /\ returned = <<"Updated: ", "Backpack", " x", "3">>
  /\ \A t \in Tasks : task[t].pc = "idle"

\* C13: an add_to_cart that writes while another invocation is suspended in
\* add_to_cart for the same product, or after one has overtaken it, leaves
\* exactly one line for the product, whose quantity is the committed quantity
\* plus its own: no update is lost and no second line is created.
C13_Serialized ==
  [][\A t \in Tasks :
       ( /\ task[t].pc = "fetching"
         /\ task'[t].pc = "idle"
         /\ returned'[1] \in {"Added: ", "Updated: "}
         /\ \/ task[t].raced
            \/ \E u \in Tasks \ {t} : /\ task[u].pc = "fetching"
                                      /\ task[u].product_id = task[t].product_id )
       => LET p == task[t].product_id
              before == {k \in DOMAIN cart_items : cart_items[k].product_id = p}
              after == {k \in DOMAIN cart_items' : cart_items'[k].product_id = p}
          IN /\ Cardinality(after) = 1
             /\ \A k \in after :
                  cart_items'[k].quantity =
                    (IF before = {} THEN 0 ELSE since[p]) + task[t].quantity
             /\ since'[p] = (IF before = {} THEN 0 ELSE since[p]) + task[t].quantity
     ]_vars

\* two invocations were inside add_to_cart for product 1 at once; the one that
\* was overtaken found the other's line and raised it to the sum
C13_Witness ==
  /\ last_call.tool = "add_to_cart"
  /\ last_call.raced
  /\ last_call.product_id = 1
  /\ returned[1] = "Updated: "
  /\ Len(cart_items) = 1
  /\ cart_items[1].quantity = 3
  /\ adds = 2

\* C14: every cart line has quantity >= 1
C14_QuantityPositive ==
  \A k \in DOMAIN cart_items : cart_items[k].quantity >= 1

\* C15: remove_from_cart on a product with no line leaves the cart unchanged,
\* and with a database handle it returns "Product <id> not in cart".
C15_RemoveAbsent ==
  [][\A t \in Tasks :
       ( /\ RemoveFromCart(t)
         /\ \A k \in DOMAIN cart_items :
              cart_items[k].product_id # last_call'.product_id )
       => /\ cart_items' = cart_items
          /\ last_call'.has_db =>
               returned' = <<"Product ", ToString(last_call'.product_id), " not in cart">>
     ]_vars

\* product 2 was removed from a cart that only holds product 1
C15_Witness ==
  /\ last_call.tool = "remove_from_cart"
  /\ last_call.has_db
  /\ last_call.product_id = 2
  /\ returned = <<"Product ", "2", " not in cart">>
  /\ Len(cart_items) = 1
  /\ cart_items[1].product_id = 1

\* C16: a step changes the cart lines only when the call that returns is
\* add_to_cart or remove_from_cart; view_cart and the six catalog tools leave
\* them as they were, whatever they return.
C16_OnlyCartToolsWrite ==
  [][ /\ cart_items' # cart_items =>
           last_call'.tool \in {"add_to_cart", "remove_from_cart"}
      /\ \A t \in Tasks :
           (ViewCart(t) \/ CatalogTool(t)) => cart_items' = cart_items
    ]_vars

\* view_cart has listed a cart of one line and left it in place
C16_Witness ==
  /\ last_call.tool = "view_cart"
  /\ last_call.has_db
  /\ Len(cart_items) = 1
  /\ returned[1] = "## Cart\n"

\* ==================================================== the product vector store
\* ProductVectorStore of vector_store.py. An embedding is a point on a line
\* and the L2 distance of the flat index is the squared difference; build_index
\* and search are synchronous, so each is one step.
Queries == {"bag", "coat"}

\* top_k: small values, and the 20 that search_products passes
TopKs == {1, 2, 20}

\* the product lists handed to build_index
ProductLists ==
  {<<>>, <<Product(1)>>, <<Product(1), Product(2)>>, <<Product(2), Product(3)>>,
   <<Product(3), Product(1), Product(2)>>}

\* how a build_index call on a non-empty list may end: it returns, or
\* model.encode raises, or index.add raises
BuildOutcomes == {"ok", "encode_raises", "add_raises"}

\* self.model.encode of one text
Encode(text) ==
  CASE text = "Backpack" -> 0
    [] text = "Shirt" -> 3
    [] text = "Jacket" -> 8
    [] text = "bag" -> 1
    [] text = "coat" -> 7
    [] OTHER -> 5

\* the text build_index embeds for a product
TextOf(product) == product.title

\* self.model.encode(texts)
Embeddings(list) == [i \in DOMAIN list |-> Encode(TextOf(list[i]))]

\* the L2 distance IndexFlatL2 reports
Distance(a, b) == (a - b) * (a - b)

\* variant: an empty list clears the store
StoreAfterBuild_clears(idx, prods, list, outcome) ==
  IF list = <<>> THEN [index |-> None, products |-> <<>>]
  ELSE IF outcome = "encode_raises" THEN [index |-> idx, products |-> list]
  ELSE IF outcome = "add_raises"
  THEN [index |-> [present |-> TRUE, vectors |-> <<>>], products |-> list]
  ELSE [index |-> [present |-> TRUE, vectors |-> Embeddings(list)], products |-> list]

\* build_index(products): self.index and self.products when the call ends
StoreAfterBuild(idx, prods, list, outcome) ==
  IF list = <<>> THEN [index |-> idx, products |-> prods]
  ELSE IF outcome = "encode_raises" THEN [index |-> idx, products |-> list]
  ELSE IF outcome = "add_raises"
  THEN [index |-> [present |-> TRUE, vectors |-> <<>>], products |-> list]
  ELSE [index |-> [present |-> TRUE, vectors |-> Embeddings(list)], products |-> list]

\* variant: search never takes the store for unavailable
Unavailable_never(idx, prods) == FALSE

\* not self.index or not self.products
Unavailable(idx, prods) == ~idx.present \/ prods = <<>>

\* the place of entry i among the entries, nearest first, earlier entry first
\* among equals
Rank(vectors, q, i) ==
  Cardinality({j \in DOMAIN vectors :
                 \/ Distance(vectors[j], q) < Distance(vectors[i], q)
                 \/ Distance(vectors[j], q) = Distance(vectors[i], q) /\ j < i})

\* self.index.search(query_embedding, k): k pairs of a 0-based label and a
\* distance, padded with the label -1
Nearest(vectors, q, k) ==
  [n \in 1..k |->
     IF n <= Len(vectors)
     THEN LET i == CHOOSE j \in DOMAIN vectors : Rank(vectors, q, j) = n - 1
          IN [idx |-> i - 1, distance |-> Distance(vectors[i], q)]
     ELSE [idx |-> -1, distance |-> 1000]]

\* self.products[idx].copy() with its similarity_score; a negative idx counts
\* from the end of the list
Scored(prods, hit) ==
  LET product == IF hit.idx >= 0 THEN prods[hit.idx + 1] ELSE prods[Len(prods) + 1 + hit.idx]
  IN [f \in DOMAIN product \cup {"similarity_score"} |->
        IF f = "similarity_score" THEN hit.distance ELSE product[f]]

\* the hits whose label is below len(self.products), in order
RECURSIVE Kept(_, _)
Kept(prods, hits) ==
  IF hits = <<>> THEN <<>>
  ELSE (IF hits[1].idx < Len(prods) THEN <<Scored(prods, hits[1])>> ELSE <<>>)
       \o Kept(prods, Tail(hits))

\* search(query, top_k): what it returns, or that it raised
SearchOutcome(idx, prods, query, top_k, encode_ok) ==
  IF Unavailable(idx, prods) THEN [raised |-> FALSE, results |-> <<>>]
  ELSE IF ~encode_ok \/ ~idx.present THEN [raised |-> TRUE, results |-> <<>>]
  ELSE [raised |-> FALSE,
        results |-> Kept(prods, Nearest(idx.vectors, Encode(query),
                                        Min(top_k, Len(prods))))]

StoreInit ==
  /\ AgentIdle
  /\ StreamIdle
  /\ CartEmpty
  /\ StoreNew
  /\ ToolsIdle

\* one call of build_index, to its return or to the exception it raises
BuildIndex(list, outcome) ==
  /\ Len(build_log) < MaxBuilds
  /\ list = <<>> => outcome = "ok"
  /\ LET after == StoreAfterBuild(index, products, list, outcome)
     IN /\ index' = after.index
        /\ products' = after.products
  /\ build_log' = Append(build_log, [products |-> list, outcome |-> outcome])
  /\ UNCHANGED <<search_out, nonStoreVars>>

\* one call of search
Search(query, top_k, encode_ok) ==
  /\ LET out == SearchOutcome(index, products, query, top_k, encode_ok)
     IN search_out' = [done |-> TRUE, query |-> query, top_k |-> top_k,
                       raised |-> out.raised, results |-> out.results]
  /\ UNCHANGED <<index, products, build_log, nonStoreVars>>

StoreNext ==
  \/ \E list \in ProductLists, outcome \in BuildOutcomes : BuildIndex(list, outcome)
  \/ \E query \in Queries, top_k \in TopKs, encode_ok \in BOOLEAN :
       Search(query, top_k, encode_ok)

StoreSpec == StoreInit /\ [][StoreNext]_vars

\* the build_index calls that built an index
GoodBuilds ==
  {i \in DOMAIN build_log :
     build_log[i].products # <<>> /\ build_log[i].outcome = "ok"}

\* the product list of the last of them
LastBuilt ==
  build_log[CHOOSE i \in GoodBuilds : \A j \in GoodBuilds : j <= i].products

\* the last build_index call had an empty list
AfterEmptyBuild ==
  build_log # <<>> /\ build_log[Len(build_log)].products = <<>>

\* C17: whenever the index is available, a build has succeeded, the index has
\* as many entries as the last successful build had products, and the stored
\* product list is that build's list.
C17_IndexOfLastBuild ==
  index.present =>
    /\ GoodBuilds # {}
    /\ Len(index.vectors) = Len(LastBuilt)
    /\ products = LastBuilt

\* C18: every search sees a complete (index, products) pair: the index, when
\* there is one, holds the embeddings of the stored products, entry by entry,
\* and every product a search returns carries its own distance to the query.
C18_SearchSeesWholePair ==
  [][\A query \in Queries, top_k \in TopKs, encode_ok \in BOOLEAN :
       Search(query, top_k, encode_ok) =>
         /\ index.present =>
              index.vectors = [i \in DOMAIN products |-> Encode(products[i].title)]
         /\ \A n \in DOMAIN search_out'.results :
              search_out'.results[n].similarity_score =
                Distance(Encode(search_out'.results[n].title), Encode(query))
     ]_vars

\* C19: a search on a store on which build_index was never called returns an
\* empty sequence and does not raise, for every query and top_k, even when
\* embedding the query would fail.
C19_SearchBeforeBuild ==
  [][\A query \in Queries, top_k \in TopKs, encode_ok \in BOOLEAN :
       (Search(query, top_k, encode_ok) /\ build_log = <<>>) =>
         /\ search_out'.results = <<>>
         /\ ~search_out'.raised
     ]_vars

\* a search with top_k = 20 has ended on a store that was never built
C19_Witness ==
  /\ build_log = <<>>
  /\ search_out.done
  /\ search_out.top_k = 20
  /\ search_out.results = <<>>
  /\ ~search_out.raised

\* C20 as stated: after a build_index call with an empty list, until the next
\* non-empty one, the index is unavailable and every search returns an empty
\* sequence.
C20_EmptyBuildUnavailable ==
  [][ /\ AfterEmptyBuild => ~index.present
      /\ \A query \in Queries, top_k \in TopKs, encode_ok \in BOOLEAN :
           (Search(query, top_k, encode_ok) /\ AfterEmptyBuild) =>
             search_out'.results = <<>>
    ]_vars

\* C20: build_index with an empty list leaves the index and the stored
\* products exactly as they were; on a store that was only ever given empty
\* lists the index is unavailable and a search returns an empty sequence
\* without raising.
C20_EmptyBuildNoOp ==
  [][ /\ BuildIndex(<<>>, "ok") => (index' = index /\ products' = products)
      /\ \A query \in Queries, top_k \in TopKs, encode_ok \in BOOLEAN :
           ( /\ Search(query, top_k, encode_ok)
             /\ AfterEmptyBuild
             /\ \A i \in DOMAIN build_log : build_log[i].products = <<>> )
           => /\ ~index.present
              /\ search_out'.results = <<>>
              /\ ~search_out'.raised
    ]_vars

\* after a successful build of two products and a build with an empty list,
\* the index is still there and a search has returned both products
C20_Witness ==
  /\ Len(build_log) = 2
  /\ build_log[1].products = <<Product(1), Product(2)>>
  /\ build_log[1].outcome = "ok"
  /\ build_log[2].products = <<>>
  /\ index.present
  /\ search_out.done
  /\ Len(search_out.results) = 2

\* C22: a search on an available index with N entries, whose query could be
\* embedded, returns min(top_k, N) product snapshots of the last successful
\* build, no product twice, nearest first, each with its own distance to the
\* query, and leaves the stored products as they were.
C22_NearestSnapshots ==
  [][\A query \in Queries, top_k \in TopKs :
       (Search(query, top_k, TRUE) /\ index.present) =>
         LET res == search_out'.results
             N == Len(index.vectors)
         IN /\ ~search_out'.raised
            /\ Len(res) = (IF top_k < N THEN top_k ELSE N)
            /\ GoodBuilds # {}
            /\ \A n \in DOMAIN res :
                 /\ \E i \in DOMAIN LastBuilt :
                      /\ res[n].id = LastBuilt[i].id
                      /\ res[n].title = LastBuilt[i].title
                      /\ res[n].price = LastBuilt[i].price
                 /\ res[n].similarity_score =
                      (Encode(res[n].title) - Encode(query)) * (Encode(res[n].title) - Encode(query))
            /\ \A m, n \in DOMAIN res :
                 m < n => /\ res[m].id # res[n].id
                          /\ res[m].similarity_score <= res[n].similarity_score
            /\ products' = products
     ]_vars

\* C26: an add_to_cart that returns an error text leaves the cart rows
\* exactly as they were before the call.
C26_ErrorLeavesCart ==
  [][\A t \in Tasks :
       ( /\ AddFinish(t)
         /\ returned'[1] \in {"Error: ", "Error: Database not available"} )
       => cart_items' = cart_items
     ]_vars

\* C28: remove_from_cart on a product that has a line deletes that line
\* whatever its quantity, leaves every other line as it was and reports the
\* removal; an add_to_cart that finds no line for its product appends one
\* line whose quantity is the quantity just added.
C28_RemoveThenFresh ==
  [][\A t \in Tasks :
       /\ ( /\ RemoveFromCart(t)
            /\ last_call'.has_db
            /\ \E k \in DOMAIN cart_items :
                 cart_items[k].product_id = last_call'.product_id )
          => /\ \A j \in DOMAIN cart_items' :
                  cart_items'[j].product_id # last_call'.product_id
             /\ \E k \in DOMAIN cart_items :
                  /\ cart_items[k].product_id = last_call'.product_id
                  /\ cart_items' = SubSeq(cart_items, 1, k - 1)
                                     \o SubSeq(cart_items, k + 1, Len(cart_items))
             /\ returned' =
                  <<"Removed product ", ToString(last_call'.product_id), " from cart">>
       /\ ( /\ AddFinish(t)
            /\ returned'[1] = "Added: "
            /\ \A k \in DOMAIN cart_items :
                 cart_items[k].product_id # task[t].product_id )
          => /\ Len(cart_items') = Len(cart_items) + 1
             /\ SubSeq(cart_items', 1, Len(cart_items)) = cart_items
             /\ cart_items'[Len(cart_items')].product_id = task[t].product_id
             /\ cart_items'[Len(cart_items')].quantity = task[t].quantity
     ]_vars

\* product 1 was removed from a cart of two lines; the line of product 2 is
\* what is left
C28_Witness ==
  /\ last_call.tool = "remove_from_cart"
  /\ last_call.product_id = 1
  /\ returned = <<"Removed product ", "1", " from cart">>
  /\ adds = 2
  /\ Len(cart_items) = 1
  /\ cart_items[1].product_id = 2

\* ====================================================== normalize_category
\* normalize_category of tools.py on category names spelled out character by
\* character, in several letter cases and with surrounding whitespace.
UpperChar(ch) ==
  IF \E i \in 1..26 : LowerCase[i] = ch
    THEN UpperCase[CHOOSE i \in 1..26 : LowerCase[i] = ch]
    ELSE ch

\* str.upper()
Upper(s) == [i \in 1..Len(s) |-> UpperChar(s[i])]

\* str.capitalize(), for the spellings a user may type
Capitalize(s) == [i \in 1..Len(s) |-> IF i = 1 THEN UpperChar(s[i]) ELSE LowerChar(s[i])]

\* str.strip()
Strip(s) ==
  LET solid == {i \in DOMAIN s : s[i] \notin {" ", "\t", "\n"}}
  IN IF solid = {} THEN <<>>
     ELSE SubSeq(s, CHOOSE i \in solid : \A j \in solid : i <= j,
                    CHOOSE i \in solid : \A j \in solid : j <= i)

\* category_map, in the order of the source
category_map ==
  <<[key |-> <<"m", "e", "n">>,
     value |-> <<"m", "e", "n", "'", "s", " ", "c", "l", "o", "t", "h", "i", "n", "g">>],
    [key |-> <<"m", "e", "n", "'", "s">>,
     value |-> <<"m", "e", "n", "'", "s", " ", "c", "l", "o", "t", "h", "i", "n", "g">>],
    [key |-> <<"m", "e", "n", "s">>,
     value |-> <<"m", "e", "n", "'", "s", " ", "c", "l", "o", "t", "h", "i", "n", "g">>],
    [key |-> <<"m", "e", "n", "'", "s", " ", "c", "l", "o", "t", "h", "i", "n", "g">>,
     value |-> <<"m", "e", "n", "'", "s", " ", "c", "l", "o", "t", "h", "i", "n", "g">>],
    [key |-> <<"m", "e", "n", "s", " ", "c", "l", "o", "t", "h", "i", "n", "g">>,
     value |-> <<"m", "e", "n", "'", "s", " ", "c", "l", "o", "t", "h", "i", "n", "g">>],
    [key |-> <<"w", "o", "m", "e", "n">>,
     value |-> <<"w", "o", "m", "e", "n", "'", "s", " ", "c", "l", "o", "t", "h", "i", "n", "g">>],
    [key |-> <<"w", "o", "m", "e", "n", "'", "s">>,
     value |-> <<"w", "o", "m", "e", "n", "'", "s", " ", "c", "l", "o", "t", "h", "i", "n", "g">>],
    [key |-> <<"w", "o", "m", "e", "n", "s">>,
     value |-> <<"w", "o", "m", "e", "n", "'", "s", " ", "c", "l", "o", "t", "h", "i", "n", "g">>],
    [key |-> <<"w", "o", "m", "e", "n", "'", "s", " ", "c", "l", "o", "t", "h", "i", "n", "g">>,
     value |-> <<"w", "o", "m", "e", "n", "'", "s", " ", "c", "l", "o", "t", "h", "i", "n", "g">>],
    [key |-> <<"w", "o", "m", "e", "n", "s", " ", "c", "l", "o", "t", "h", "i", "n", "g">>,
     value |-> <<"w", "o", "m", "e", "n", "'", "s", " ", "c", "l", "o", "t", "h", "i", "n", "g">>],
    [key |-> <<"e", "l", "e", "c", "t", "r", "o", "n", "i", "c", "s">>,
     value |-> <<"e", "l", "e", "c", "t", "r", "o", "n", "i", "c", "s">>],
    [key |-> <<"e", "l", "e", "c", "t", "r", "o", "n", "i", "c">>,
     value |-> <<"e", "l", "e", "c", "t", "r", "o", "n", "i", "c", "s">>],
    [key |-> <<"t", "e", "c", "h">>,
     value |-> <<"e", "l", "e", "c", "t", "r", "o", "n", "i", "c", "s">>],
    [key |-> <<"j", "e", "w", "e", "l", "e", "r", "y">>,
     value |-> <<"j", "e", "w", "e", "l", "e", "r", "y">>],
    [key |-> <<"j", "e", "w", "e", "l", "r", "y">>,
     value |-> <<"j", "e", "w", "e", "l", "e", "r", "y">>],
    [key |-> <<"j", "e", "w", "e", "l", "l", "e", "r", "y">>,
     value |-> <<"j", "e", "w", "e", "l", "e", "r", "y">>]>>

\* variant: the key is lowered but not stripped
normalize_category_unstripped(category) ==
  LET category_lower == Lower(category)
      hits == {i \in DOMAIN category_map : category_map[i].key = category_lower}
  IN IF hits = {} THEN category ELSE category_map[CHOOSE i \in hits : TRUE].value

\* normalize_category(category)
normalize_category(category) ==
  LET category_lower == Strip(Lower(category))
      hits == {i \in DOMAIN category_map : category_map[i].key = category_lower}
  IN IF hits = {} THEN category ELSE category_map[CHOOSE i \in hits : TRUE].value

NormalizeInit ==
  /\ AgentIdle
  /\ StreamIdle
  /\ CartEmpty
  /\ StoreNew
  /\ tool_pc = "called"
  /\ \E left \in {<<>>, <<" ">>, <<"\t", " ">>},
        right \in {<<>>, <<" ">>, <<"\t", " ">>},
        w \in {category_map[i].key : i \in DOMAIN category_map}
              \cup {<<"s", "h", "o", "e", "s">>, <<"m", "e", "n", " ", "s">>,
                    <<"t", "o", "y", "s">>, <<>>},
        word \in {"lower", "upper", "capitalized"} :
       tool_args = [tool |-> "normalize_category",
                    category |-> left \o (CASE word = "lower" -> w
                                             [] word = "upper" -> Upper(w)
                                             [] OTHER -> Capitalize(w)) \o right]
  /\ trace = <<>>
  /\ listing = <<>>
  /\ reply = <<>>

\* the call returns
Normalize ==
  /\ tool_pc = "called"
  /\ tool_args.tool = "normalize_category"
  /\ reply' = normalize_category(tool_args.category)
  /\ tool_pc' = "returned"
  /\ UNCHANGED <<tool_args, trace, listing, nonToolVars>>

NormalizeNext == Normalize

NormalizeSpec == NormalizeInit /\ [][NormalizeNext]_vars

\* the spellings the table gives each category
MensNames == {<<"m", "e", "n">>,
   <<"m", "e", "n", "'", "s">>,
   <<"m", "e", "n", "s">>,
   <<"m", "e", "n", "'", "s", " ", "c", "l", "o", "t", "h", "i", "n", "g">>,
   <<"m", "e", "n", "s", " ", "c", "l", "o", "t", "h", "i", "n", "g">>}
WomensNames == {<<"w", "o", "m", "e", "n">>,
   <<"w", "o", "m", "e", "n", "'", "s">>,
   <<"w", "o", "m", "e", "n", "s">>,
   <<"w", "o", "m", "e", "n", "'", "s", " ", "c", "l", "o", "t", "h", "i", "n", "g">>,
   <<"w", "o", "m", "e", "n", "s", " ", "c", "l", "o", "t", "h", "i", "n", "g">>}
ElectronicsNames == {<<"e", "l", "e", "c", "t", "r", "o", "n", "i", "c", "s">>,
   <<"e", "l", "e", "c", "t", "r", "o", "n", "i", "c">>,
   <<"t", "e", "c", "h">>}
JeweleryNames == {<<"j", "e", "w", "e", "l", "e", "r", "y">>,
   <<"j", "e", "w", "e", "l", "r", "y">>,
   <<"j", "e", "w", "e", "l", "l", "e", "r", "y">>}

\* C25: every synonym of a category, in any letter case and with any
\* surrounding whitespace, is mapped to that category's canonical string, and
\* an input that is no synonym is returned exactly as it was given.
C25_Canonical ==
  tool_pc = "returned" =>
    LET given == tool_args.category
        name == Strip(Lower(given))
    IN /\ name \in MensNames =>
            reply = <<"m", "e", "n", "'", "s", " ", "c", "l", "o", "t", "h", "i", "n", "g">>
       /\ name \in WomensNames =>
            reply = <<"w", "o", "m", "e", "n", "'", "s", " ", "c", "l", "o", "t", "h", "i", "n", "g">>
       /\ name \in ElectronicsNames =>
            reply = <<"e", "l", "e", "c", "t", "r", "o", "n", "i", "c", "s">>
       /\ name \in JeweleryNames =>
            reply = <<"j", "e", "w", "e", "l", "e", "r", "y">>
       /\ name \notin (MensNames \cup WomensNames \cup ElectronicsNames \cup JeweleryNames)
            => reply = given

\* "MENS" with a tab and a blank before it was mapped to "men's clothing"
C25_Witness ==
  /\ tool_pc = "returned"
  /\ tool_args.category = <<"\t", " ", "M", "E", "N", "S">>
  /\ reply = <<"m", "e", "n", "'", "s", " ", "c", "l", "o", "t", "h", "i", "n", "g">>

\* ======================================================== compare_products
\* compare_products of tools.py on every list of up to MaxIds ids; the catalog
\* has products 1 to 3 and the lookup of any other id raises.
MinCompare == 2
MaxCompare == 5

Catalog == {1, 2, 3}

\* min(list) and max(list)
MinOf(list) == CHOOSE x \in {list[i] : i \in DOMAIN list} : \A i \in DOMAIN list : x <= list[i]

MaxOf(list) == CHOOSE x \in {list[i] : i \in DOMAIN list} : \A i \in DOMAIN list : list[i] <= x

\* variant: the position of the last occurrence
ListIndex_last(list, x) ==
  (CHOOSE i \in DOMAIN list : list[i] = x /\ \A j \in DOMAIN list : list[j] = x => j <= i) - 1

\* list.index(x): the 0-based position of the first occurrence
ListIndex(list, x) ==
  (CHOOSE i \in DOMAIN list : list[i] = x /\ \A j \in DOMAIN list : list[j] = x => i <= j) - 1

\* "\n".join(lines), each line a sequence of pieces
RECURSIVE Join(_)
Join(lines) ==
  IF lines = <<>> THEN <<>>
  ELSE IF Len(lines) = 1 THEN lines[1]
  ELSE lines[1] \o <<"\n">> \o Join(Tail(lines))

\* a rate as Python prints it
RateText(rate) == <<ToString(rate \div 10), ".", ToString(rate % 10)>>

\* variant: the lookups go on after one has failed
Looked_all(product_ids) == product_ids

\* the ids whose lookup the loop at lines 173-177 awaits: all of them, or
\* those up to the first that fails
Looked(product_ids) ==
  LET failing == {i \in DOMAIN product_ids : product_ids[i] \notin Catalog}
  IN IF failing = {} THEN product_ids
     ELSE SubSeq(product_ids, 1, CHOOSE i \in failing : \A j \in failing : i <= j)

\* the text built at lines 179-187 (the two pictographs left out)
Comparison(found) ==
  LET prices == [i \in DOMAIN found |-> found[i].price]
      ratings == [i \in DOMAIN found |-> found[i].rating.rate]
  IN <<"## Product Comparison\n\n", "**Names:**\n">>
     \o Join([i \in DOMAIN found |-> <<ToString(i), ". ", found[i].title>>])
     \o <<"\n\n**Prices:**\n">>
     \o Join([i \in DOMAIN found |-> <<ToString(i), ". $", ToString(found[i].price)>>])
     \o <<"\n\n**Ratings:**\n">>
     \o Join([i \in DOMAIN found |-> <<ToString(i), ". ">> \o RateText(found[i].rating.rate) \o <<"/5">>])
     \o <<"\n\nBest Price: #", ToString(ListIndex(prices, MinOf(prices)) + 1),
          " ($", ToString(MinOf(prices)), ")">>
     \o <<"\nBest Rating: #", ToString(ListIndex(ratings, MaxOf(ratings)) + 1), " (">>
     \o RateText(MaxOf(ratings)) \o <<"/5)">>

\* compare_products(product_ids): the lookups it makes and the text it returns
compare_products(product_ids) ==
  IF Len(product_ids) < MinCompare
  THEN [trace |-> <<>>, reply |-> <<"Need at least 2 products to compare">>]
  ELSE IF Len(product_ids) > MaxCompare
  THEN [trace |-> <<>>, reply |-> <<"Max 5 products">>]
  ELSE LET looked == Looked(product_ids)
       IN IF looked[Len(looked)] \notin Catalog
          THEN [trace |-> looked,
                reply |-> <<"Product ", ToString(looked[Len(looked)]), " not found">>]
          ELSE [trace |-> looked,
                reply |-> Comparison([i \in DOMAIN looked |-> Product(looked[i])])]

CompareInit ==
  /\ AgentIdle
  /\ StreamIdle
  /\ CartEmpty
  /\ StoreNew
  /\ tool_pc = "called"
  /\ tool_args \in [tool : {"compare_products"},
                    product_ids : SeqsUpTo(Catalog \cup {4}, MaxIds)]
  /\ trace = <<>>
  /\ listing = <<>>
  /\ reply = <<>>

\* the call runs to its return
CompareProducts ==
  /\ tool_pc = "called"
  /\ tool_args.tool = "compare_products"
  /\ LET out == compare_products(tool_args.product_ids)
     IN /\ trace' = out.trace
        /\ reply' = out.reply
  /\ tool_pc' = "returned"
  /\ UNCHANGED <<tool_args, listing, nonToolVars>>

CompareNext == CompareProducts

CompareSpec == CompareInit /\ [][CompareNext]_vars

\* C23: over 2 to 5 ids that all resolve, the reply names as best price the
\* 1-based position of the first product with the lowest price, and as best
\* rating that of the first product with the highest rating.
C23_BestFirst ==
  ( /\ tool_pc = "returned"
    /\ tool_args.tool = "compare_products"
    /\ Len(tool_args.product_ids) \in 2..5
    /\ \A i \in DOMAIN tool_args.product_ids : tool_args.product_ids[i] \in {1, 2, 3} )
  => LET ids == tool_args.product_ids
         price == [p \in {1, 2, 3} |-> IF p = 1 THEN 110 ELSE IF p = 2 THEN 22 ELSE 56]
         rate == [p \in {1, 2, 3} |-> IF p = 1 THEN 39 ELSE 41]
         cheapest == CHOOSE i \in DOMAIN ids :
                       /\ \A j \in DOMAIN ids : price[ids[i]] <= price[ids[j]]
                       /\ \A j \in 1..(i - 1) : price[ids[j]] > price[ids[i]]
         best == CHOOSE i \in DOMAIN ids :
                   /\ \A j \in DOMAIN ids : rate[ids[j]] <= rate[ids[i]]
                   /\ \A j \in 1..(i - 1) : rate[ids[j]] < rate[ids[i]]
     IN /\ Contains(<<"\n\nBest Price: #", ToString(cheapest), " ($",
                      ToString(price[ids[cheapest]]), ")">>, reply)
        /\ Contains(<<"\nBest Rating: #", ToString(best), " (",
                      ToString(rate[ids[best]] \div 10), ".",
                      ToString(rate[ids[best]] % 10), "/5)">>, reply)

\* backpack, jacket, shirt, shirt: the shirt at position 3 is the cheapest,
\* before its repetition, and the jacket at position 2 is the best rated,
\* before the equally rated shirts
C23_Witness ==
  /\ tool_pc = "returned"
  /\ tool_args.tool = "compare_products"
  /\ tool_args.product_ids = <<1, 3, 2, 2>>
  /\ Contains(<<"\n\nBest Price: #", "3", " ($", "22", ")">>, reply)
  /\ Contains(<<"\nBest Rating: #", "2", " (", "4", ".", "1", "/5)">>, reply)

\* C24: fewer than 2 ids give "Need at least 2 products to compare" and more
\* than 5 give "Max 5 products", with no lookup; otherwise the ids are looked
\* up in input order up to the first that fails, whose "Product X not found"
\* is the whole reply, and all of them when none fails.
C24_ValidateThenLookup ==
  (tool_pc = "returned" /\ tool_args.tool = "compare_products") =>
    LET ids == tool_args.product_ids
        failing == {i \in DOMAIN ids : ids[i] = 4}
    IN /\ Len(ids) < 2 => (trace = <<>> /\ reply = <<"Need at least 2 products to compare">>)
       /\ Len(ids) > 5 => (trace = <<>> /\ reply = <<"Max 5 products">>)
       /\ (Len(ids) \in 2..5 /\ failing # {}) =>
            \E f \in failing :
              /\ \A j \in failing : f <= j
              /\ trace = SubSeq(ids, 1, f)
              /\ reply = <<"Product ", ToString(ids[f]), " not found">>
       /\ (Len(ids) \in 2..5 /\ failing = {}) =>
            (trace = ids /\ reply[1] = "## Product Comparison\n\n")

\* of the ids 1, 4, 2, 4 only the first two were looked up
C24_Witness ==
  /\ tool_pc = "returned"
  /\ tool_args.tool = "compare_products"
  /\ tool_args.product_ids = <<1, 4, 2, 4>>
  /\ trace = <<1, 4>>
  /\ reply = <<"Product ", "4", " not found">>

\* ========================================================= search_products
\* search_products of tools.py, called on the store as startup left it: never
\* built when the catalog could not be fetched, or after the one build_index
\* call of initialize_vector_store, however that call ended.
SearchTopK == 20

\* the spelling of the texts the tool lowers and searches
Chars(text) ==
  CASE text = "Backpack" ->
         <<"B", "a", "c", "k", "p", "a", "c", "k">>
    [] text = "Shirt" ->
         <<"S", "h", "i", "r", "t">>
    [] text = "Jacket" ->
         <<"J", "a", "c", "k", "e", "t">>
    [] text = "Laptop bag" ->
         <<"L", "a", "p", "t", "o", "p", " ", "b", "a", "g">>
    [] text = "Cotton top" ->
         <<"C", "o", "t", "t", "o", "n", " ", "t", "o", "p">>
    [] text = "Rain coat" ->
         <<"R", "a", "i", "n", " ", "c", "o", "a", "t">>
    [] text = "men's clothing" ->
         <<"m", "e", "n", "'", "s", " ", "c", "l", "o", "t", "h", "i", "n", "g">>
    [] text = "women's clothing" ->
         <<"w", "o", "m", "e", "n", "'", "s", " ", "c", "l", "o", "t", "h", "i", "n", "g">>
    [] text = "bag" ->
         <<"b", "a", "g">>
    [] text = "COAT" ->
         <<"C", "O", "A", "T">>
    [] text = "zzz" ->
         <<"z", "z", "z">>
    [] text = "mens" ->
         <<"m", "e", "n", "s">>
    [] text = "toys" ->
         <<"t", "o", "y", "s">>
    [] OTHER -> <<>>

\* an optional argument that is given, and the two that are not
Some(v) == [given |-> TRUE, value |-> v]
NoText == [given |-> FALSE, value |-> ""]
NoNumber == [given |-> FALSE, value |-> 0]

\* Python's truth value of an Optional[str] and of an Optional[float]
TruthyText(arg) == arg.given /\ arg.value # ""
TruthyNumber(arg) == arg.given /\ arg.value # 0

\* fake_store_api.get_products()
AllProducts == <<Product(1), Product(2), Product(3)>>

\* [p for p in list if keep[p]], keep given per position
RECURSIVE Filter(_, _)
Filter(list, keep) ==
  IF list = <<>> THEN <<>>
  ELSE (IF keep[1] THEN <<list[1]>> ELSE <<>>)
       \o Filter(Tail(list), [i \in 1..(Len(list) - 1) |-> keep[i + 1]])

\* fake_store_api.get_products_by_category(normalized_category)
ProductsIn(normalized_category) ==
  Filter(AllProducts,
         [i \in DOMAIN AllProducts |-> Chars(AllProducts[i].category) = normalized_category])

\* variant: the index is taken for available whatever it is
IndexAvailable_always(idx) == TRUE

\* vector_store.index is not None
IndexAvailable(idx) == idx.present

\* q in p['title'].lower() or q in p['description'].lower()
KeywordMatch(q, product) ==
  \/ Contains(q, Lower(Chars(product.title)))
  \/ Contains(q, Lower(Chars(product.description)))

\* the two price filters of lines 141-144
PriceFiltered(list, min_price, max_price) ==
  LET above == IF TruthyNumber(min_price)
               THEN Filter(list, [i \in DOMAIN list |-> list[i].price >= min_price.value])
               ELSE list
  IN IF TruthyNumber(max_price)
     THEN Filter(above, [i \in DOMAIN above |-> above[i].price <= max_price.value])
     ELSE above

\* the filters named in the header
FiltersText(a) ==
  LET parts == (IF TruthyText(a.query) THEN <<<<"'", a.query.value, "'">>>> ELSE <<>>)
               \o (IF TruthyText(a.category) THEN <<<<a.category.value>>>> ELSE <<>>)
               \o (IF TruthyNumber(a.min_price) \/ TruthyNumber(a.max_price)
                   THEN <<<<"$", ToString(IF TruthyNumber(a.min_price) THEN a.min_price.value ELSE 0),
                            "-$", IF TruthyNumber(a.max_price) THEN ToString(a.max_price.value) ELSE "inf">>>>
                   ELSE <<>>)
  IN IF parts = <<>> THEN <<>>
     ELSE <<" (">> \o Concat([i \in DOMAIN parts |->
                                (IF i = 1 THEN <<>> ELSE <<", ">>) \o parts[i]]) \o <<")">>

\* the text returned for a non-empty result list
ListingText(a, list) ==
  <<"Found ", ToString(Len(list)), " products">> \o FiltersText(a) \o <<":\n\n">>
  \o Join([i \in DOMAIN list |->
             <<"ID: ", ToString(list[i].id), " | ", list[i].title, " | $",
               ToString(list[i].price), " | ", list[i].category, " | ">>
             \o RateText(list[i].rating.rate) \o <<"/5">>])

\* search_products(query, category, min_price, max_price): the collaborator
\* calls it makes, the products it keeps and the text it returns. api_ok and
\* encode_ok say whether the catalog call and the query embedding succeed.
search_products(a, idx, prods, api_ok, encode_ok) ==
  LET normalized_category ==
        IF TruthyText(a.category) THEN normalize_category(Chars(a.category.value)) ELSE <<>>
      by_category == normalized_category # <<>>
      fetch == IF by_category THEN "get_products_by_category" ELSE "get_products"
      fetched == IF by_category THEN ProductsIn(normalized_category) ELSE AllProducts
      semantic == TruthyText(a.query) /\ IndexAvailable(idx)
      found == SearchOutcome(idx, prods, a.query.value, SearchTopK, encode_ok)
      matched ==
        IF ~TruthyText(a.query) THEN fetched
        ELSE IF semantic
        THEN (IF by_category
              THEN Filter(found.results,
                          [i \in DOMAIN found.results |->
                             Chars(found.results[i].category) = normalized_category])
              ELSE found.results)
        ELSE Filter(fetched,
                    [i \in DOMAIN fetched |->
                       KeywordMatch(Lower(Chars(a.query.value)), fetched[i])])
      kept == PriceFiltered(matched, a.min_price, a.max_price)
  IN IF ~api_ok
     THEN [trace |-> <<fetch>>, searched |-> FALSE, found |-> found,
           listing |-> <<>>, reply |-> LookupErrorText]
     ELSE IF semantic /\ found.raised
     THEN [trace |-> <<fetch, "search">>, searched |-> TRUE, found |-> found,
           listing |-> <<>>, reply |-> <<"Error: ", "search failed">>]
     ELSE [trace |-> IF semantic THEN <<fetch, "search">> ELSE <<fetch>>,
           searched |-> semantic, found |-> found,
           listing |-> kept,
           reply |-> IF kept = <<>> THEN <<"No products found">> ELSE ListingText(a, kept)]

FindInit ==
  /\ AgentIdle
  /\ StreamIdle
  /\ CartEmpty
  /\ ToolsIdle
  /\ search_out = NoSearch
  /\ \/ StoreNew
     \/ \E list \in ProductLists, outcome \in BuildOutcomes :
          /\ list = <<>> => outcome = "ok"
          /\ index = StoreAfterBuild(None, <<>>, list, outcome).index
          /\ products = StoreAfterBuild(None, <<>>, list, outcome).products
          /\ build_log = <<[products |-> list, outcome |-> outcome]>>

\* one call of search_products, to its return
SearchProducts(a, api_ok, encode_ok) ==
  /\ tool_pc = "idle"
  /\ LET out == search_products(a, index, products, api_ok, encode_ok)
     IN /\ trace' = out.trace
        /\ listing' = out.listing
        /\ reply' = out.reply
        /\ search_out' = IF out.searched
                         THEN [done |-> TRUE, query |-> a.query.value, top_k |-> SearchTopK,
                               raised |-> out.found.raised, results |-> out.found.results]
                         ELSE search_out
  /\ tool_args' = [tool |-> "search_products", query |-> a.query, category |-> a.category,
                   min_price |-> a.min_price, max_price |-> a.max_price, api_ok |-> api_ok]
  /\ tool_pc' = "returned"
  /\ UNCHANGED <<index, products, build_log, agentVars, streamVars, cartVars>>

FindNext ==
  \E a \in [query : {NoText, Some(""), Some("bag"), Some("COAT"), Some("zzz")},
            category : {NoText, Some("mens"), Some("toys")},
            min_price : {NoNumber, Some(0), Some(50)},
            max_price : {NoNumber, Some(0), Some(100)}],
     api_ok \in BOOLEAN, encode_ok \in BOOLEAN :
    SearchProducts(a, api_ok, encode_ok)

FindSpec == FindInit /\ [][FindNext]_vars

C27_PriceBounds ==
  ( /\ tool_pc = "returned"
    /\ tool_args.tool = "search_products"
    /\ tool_args.api_ok
    /\ reply[1] # "Error: " )
  => LET a == tool_args
         within(price) == /\ a.min_price.given => price >= a.min_price.value
                          /\ a.max_price.given => price <= a.max_price.value
     IN /\ \A i \in DOMAIN listing : within(listing[i].price)
        /\ reply = <<"No products found">> <=> listing = <<>>
        /\ (~a.query.given /\ ~a.category.given) =>
             (reply = <<"No products found">> <=> ~\E price \in {110, 22, 56} : within(price))

====
